---- MODULE Spec2Model ----
(***************************************************************************)
(* The protocol gateway of google-ads-mcp (src/main.py): the BearerAuth    *)
(* middleware, the Starlette router with its three routes, the health      *)
(* endpoint and the MCP entry that answers probes or delegates.            *)
(*                                                                         *)
(* Strings are sequences of one-character strings, so that strip(),        *)
(* lower(), startswith() and split() are computed, not assumed.            *)
(***************************************************************************)
EXTENDS Naturals, Sequences, FiniteSets

VARIABLES
    environ,    \* os.environ["MCP_BEARER_TOKEN"]: [set, value]
    pc,         \* position of the request: idle, call_next, denied, responded
    request,    \* the request being handled: [method, path, auth]
    required,   \* local of BearerAuth.dispatch (line 62)
    token,      \* local of BearerAuth.dispatch (line 70)
    invoked,    \* the handlers run for the request
    response    \* the response sent: [status, body]

vars == <<environ, pc, request, required, token, invoked, response>>

----------------------------------------------------------------------------
(* Bounds *)

\* Longest Authorization header value, in pieces of HeaderPieces.
MaxHeaderPieces == 2

----------------------------------------------------------------------------
(* Characters and strings *)

SP == " "
QUOTE == "\""

Str_Bearer == <<"B", "e", "a", "r", "e", "r", " ">>
Str_BEARER == <<"B", "E", "A", "R", "E", "R", " ">>
Str_T == <<"T">>
Str_t == <<"t">>

\* The pieces Authorization header values are built from.
HeaderPieces == {<<QUOTE>>, <<SP>>, Str_Bearer, Str_BEARER, Str_T, Str_t}

RECURSIVE Concats(_, _)
Concats(P, n) ==
    IF n = 0 THEN {<<>>}
    ELSE LET S == Concats(P, n - 1) IN S \cup {p \o s : p \in P, s \in S}

Quoted(s) == <<QUOTE>> \o s \o <<QUOTE>>

Absent == [set |-> FALSE, value |-> <<>>]
Present(s) == [set |-> TRUE, value |-> s]

HeaderStrings ==
    LET S == Concats(HeaderPieces, MaxHeaderPieces) IN S \cup {Quoted(s) : s \in S}
AuthHeaders == {Absent} \cup {Present(s) : s \in HeaderStrings}

\* The values MCP_BEARER_TOKEN takes: unset, empty, blank, a token, a token of
\* the other letter case with whitespace around it, a token in double quotes
\* and a token that begins with "Bearer ".
EnvValues ==
    {Absent, Present(<<>>), Present(<<SP>>), Present(Str_T),
     Present(<<SP>> \o Str_t \o <<SP>>), Present(Quoted(Str_T)),
     Present(Str_Bearer \o Str_T)}

\* The value MCP_BEARER_TOKEN has when the process starts.
StartEnviron == Present(Str_T)

Min(S) == CHOOSE x \in S : \A y \in S : x <= y
Max(S) == CHOOSE x \in S : \A y \in S : y <= x

\* str.strip(): leading and trailing whitespace removed.
Strip(s) ==
    LET keep == {i \in 1..Len(s) : s[i] # SP}
    IN IF keep = {} THEN <<>> ELSE SubSeq(s, Min(keep), Max(keep))

LowerChar(c) ==
    CASE c = "B" -> "b"
      [] c = "E" -> "e"
      [] c = "A" -> "a"
      [] c = "R" -> "r"
      [] c = "T" -> "t"
      [] OTHER -> c

\* str.lower()
Lower(s) == [i \in 1..Len(s) |-> LowerChar(s[i])]

\* str.startswith(p)
StartsWith(s, p) == Len(s) >= Len(p) /\ SubSeq(s, 1, Len(p)) = p

\* s.split(" ", 1)[1]: what follows the first space of s.
AfterFirstSpace(s) ==
    LET first == Min({i \in 1..Len(s) : s[i] = SP})
    IN SubSeq(s, first + 1, Len(s))

\* `x or ""` on the result of a .get(): None becomes the empty string.
OrEmpty(v) == IF v.set THEN v.value ELSE <<>>

----------------------------------------------------------------------------
(* Requests *)

Methods == {"GET", "HEAD", "OPTIONS", "POST", "DELETE"}

Path_healthz == <<"/", "h", "e", "a", "l", "t", "h", "z">>
Path_mcp == <<"/", "m", "c", "p">>
Path_mcp_slash == Path_mcp \o <<"/">>
Path_mcp_sub == Path_mcp_slash \o <<"x">>
Path_mcpx == Path_mcp \o <<"x">>
Path_other == <<"/", "x">>

Paths == {Path_healthz, Path_mcp, Path_mcp_slash, Path_mcp_sub, Path_mcpx, Path_other}

NoRequest == [method |-> "", path |-> <<>>, auth |-> Absent]
NoResponse == [status |-> 0, body |-> ""]

----------------------------------------------------------------------------
(* BearerAuth.dispatch *)

\* OPTIONS left out of the exemption.
ExemptMethods_NoOptions == {"GET", "HEAD"}

\* Line 59: the methods that pass without authentication.
ExemptMethods == {"GET", "HEAD", "OPTIONS"}

\* The token read once, when the module is imported.
EnvironGet_AtImport == StartEnviron

\* os.environ.get("MCP_BEARER_TOKEN"), read when dispatch runs.
EnvironGet == environ

\* Line 62.
RequiredToken == Strip(OrEmpty(EnvironGet))

\* The surrounding quotes are left in place.
StripQuotes_Kept(auth) == auth

\* Lines 66-67: one pair of surrounding double quotes is stripped.
StripQuotes(auth) ==
    IF Len(auth) >= 2 /\ auth[1] = QUOTE /\ auth[Len(auth)] = QUOTE
    THEN Strip(SubSeq(auth, 2, Len(auth) - 1))
    ELSE auth

\* The prefix is tested with the letter case it is written in.
BearerOrBare_CaseSensitive(auth) ==
    IF StartsWith(auth, Str_Bearer)
    THEN Strip(AfterFirstSpace(auth))
    ELSE auth

\* Line 70: "Bearer <token>" or "<token>".
BearerOrBare(auth) ==
    IF StartsWith(Lower(auth), Lower(Str_Bearer))
    THEN Strip(AfterFirstSpace(auth))
    ELSE auth

\* Lines 63-70: the token of an Authorization header.
ExtractToken(h) == BearerOrBare(StripQuotes(Strip(OrEmpty(h))))

\* Line 72: the request is refused.
Refused(req, tok) == req # <<>> /\ tok # req

Unauthorized == [status |-> 401, body |-> "{\"error\":\"Unauthorized\"}"]

\* Line 73 answered and call_next ran all the same.
Deny_StillCallsNext ==
    /\ pc' = "call_next"
    /\ response' = Unauthorized
    /\ invoked' = {"call_next"}

\* Line 73: the middleware answers itself and returns.
Deny ==
    /\ pc' = "denied"
    /\ response' = Unauthorized
    /\ UNCHANGED invoked

\* Lines 60 and 75: the request goes on to the application.
PassOn ==
    /\ pc' = "call_next"
    /\ invoked' = {"call_next"}
    /\ UNCHANGED response

\* Lines 57-75: the middleware handles the request (m, p, a).
Dispatch(m, p, a) ==
    /\ request' = [method |-> m, path |-> p, auth |-> a]
    /\ IF m \in ExemptMethods
       THEN /\ PassOn
            /\ UNCHANGED <<required, token>>
       ELSE /\ required' = RequiredToken
            /\ token' = ExtractToken(a)
            /\ IF Refused(required', token') THEN Deny ELSE PassOn
    /\ UNCHANGED environ

----------------------------------------------------------------------------
(* The routes of app (lines 90-97), as Starlette's Router matches them. *)

\* Line 92: Route("/healthz", healthz) matches the exact path. The endpoint is a
\* function and no methods are given, so the route accepts GET and HEAD only; on
\* another method the match is partial.
HealthzMethods_Any == Methods
HealthzMethods == {"GET", "HEAD"}
RouteMatches(path) == path = Path_healthz

\* Lines 94-95: Mount("/mcp", ...) and Mount("/mcp/", ...). A Mount strips the
\* trailing slash of its path and matches every path that begins with
\* <path> "/": both mounts match "/mcp/" and what lies under it, neither
\* matches "/mcp".
MountPrefix(mount) ==
    IF Len(mount) > 0 /\ mount[Len(mount)] = "/"
    THEN SubSeq(mount, 1, Len(mount) - 1) \o <<"/">>
    ELSE mount \o <<"/">>
MountMatches_NoSlash(mount, path) == StartsWith(path, Path_mcp)
MountMatches(mount, path) == StartsWith(path, MountPrefix(mount))
Mounts == {Path_mcp, Path_mcp_slash}

\* Line 101.
redirect_slashes == FALSE

\* The path the router tries when redirect_slashes is on: the trailing slash
\* toggled.
SlashToggled(path) ==
    IF path[Len(path)] = "/" THEN SubSeq(path, 1, Len(path) - 1) ELSE path \o <<"/">>

AnyRouteMatches(path) ==
    RouteMatches(path) \/ \E mt \in Mounts : MountMatches(mt, path)

\* The router's choice for a request: the first full match in route order, else
\* the partial match, else a redirect when redirect_slashes allows, else 404.
RouteTarget(method, path) ==
    IF RouteMatches(path) /\ method \in HealthzMethods THEN "healthz"
    ELSE IF \E mt \in Mounts : MountMatches(mt, path) THEN "mcp_entry"
    ELSE IF RouteMatches(path) THEN "method_not_allowed"
    ELSE IF redirect_slashes /\ path # <<"/">> /\ AnyRouteMatches(SlashToggled(path))
         THEN "redirect"
    ELSE "not_found"

\* Lines 52-53.
HealthzResponse == [status |-> 200, body |-> "ok"]

\* Line 83.
ProbeResponse == [status |-> 200, body |-> "{\"status\":\"ok\",\"server\":\"GoogleAds-MCP\"}"]

\* OPTIONS answered as a probe too.
ProbeMethods_WithOptions == {"GET", "HEAD", "OPTIONS"}

\* Line 82: the methods mcp_entry answers itself.
ProbeMethods == {"GET", "HEAD"}

\* What the delegate MCP app answers is its own business: some status.
DelegateStatuses == {200, 500}
DelegateResponse(st) == [status |-> st, body |-> "<mcp_http>"]

\* Lines 80-87: mcp_entry.
McpEntry(method, st) ==
    IF method \in ProbeMethods
    THEN /\ invoked' = invoked \cup {"mcp_entry", "probe"}
         /\ response' = ProbeResponse
    ELSE /\ invoked' = invoked \cup {"mcp_entry", "mcp_http"}
         /\ response' = DelegateResponse(st)

\* call_next(request): the router picks the handler and the handler answers.
CallNext(st) ==
    /\ pc = "call_next"
    /\ pc' = "responded"
    /\ LET target == RouteTarget(request.method, request.path)
       IN CASE target = "healthz" ->
                 /\ invoked' = invoked \cup {"healthz"}
                 /\ response' = HealthzResponse
            [] target = "mcp_entry" -> McpEntry(request.method, st)
            [] target = "method_not_allowed" ->
                 /\ response' = [status |-> 405, body |-> "Method Not Allowed"]
                 /\ UNCHANGED invoked
            [] target = "redirect" ->
                 /\ response' = [status |-> 307, body |-> ""]
                 /\ UNCHANGED invoked
            [] OTHER ->
                 /\ response' = [status |-> 404, body |-> "Not Found"]
                 /\ UNCHANGED invoked
    /\ UNCHANGED <<environ, request, required, token>>

----------------------------------------------------------------------------
\* A request arrives; the middleware is the first to see it (line 98).
Receive ==
    /\ pc = "idle"
    /\ \E m \in Methods, p \in Paths, a \in AuthHeaders : Dispatch(m, p, a)

(* The environment changes the token (a rotation). *)

Rotate(v) ==
    /\ environ' = v
    /\ UNCHANGED <<pc, request, required, token, invoked, response>>

Finish ==
    /\ pc \in {"denied", "responded"}
    /\ pc' = "idle"
    /\ request' = NoRequest
    /\ required' = <<>>
    /\ token' = <<>>
    /\ invoked' = {}
    /\ response' = NoResponse
    /\ UNCHANGED environ

Init ==
    /\ environ = StartEnviron
    /\ pc = "idle"
    /\ request = NoRequest
    /\ required = <<>>
    /\ token = <<>>
    /\ invoked = {}
    /\ response = NoResponse

Next ==
    \/ Receive
    \/ \E st \in DelegateStatuses : CallNext(st)
    \/ \E v \in EnvValues : Rotate(v)
    \/ Finish

Spec == Init /\ [][Next]_vars

----------------------------------------------------------------------------
(* The statements checked. They are written in the words of the           *)
(* specification, with their own trimming and token extraction.           *)

RECURSIVE TrimLeft(_)
TrimLeft(s) == IF s # <<>> /\ Head(s) = " " THEN TrimLeft(Tail(s)) ELSE s
RECURSIVE TrimRight(_)
TrimRight(s) ==
    IF s # <<>> /\ s[Len(s)] = " " THEN TrimRight(SubSeq(s, 1, Len(s) - 1)) ELSE s
Trimmed(s) == TrimRight(TrimLeft(s))

BearerPrefixLower == <<"b", "e", "a", "r", "e", "r", " ">>
IsQuoteWrapped(s) == Len(s) >= 2 /\ Head(s) = "\"" /\ s[Len(s)] = "\""
HasBearerPrefix(s) ==
    /\ Len(s) >= Len(BearerPrefixLower)
    /\ Lower(SubSeq(s, 1, Len(BearerPrefixLower))) = BearerPrefixLower

\* Trim; strip one pair of surrounding double quotes and trim again; drop a
\* case-insensitive "Bearer " prefix and trim.
RefExtract(h) ==
    LET raw == IF h.set THEN h.value ELSE <<>>
        t1 == Trimmed(raw)
        t2 == IF IsQuoteWrapped(t1) THEN Trimmed(SubSeq(t1, 2, Len(t1) - 1)) ELSE t1
    IN IF HasBearerPrefix(t2)
       THEN Trimmed(SubSeq(t2, Len(BearerPrefixLower) + 1, Len(t2)))
       ELSE t2

AuthExempt == {"GET", "HEAD", "OPTIONS"}
Answered == pc \in {"denied", "responded"}
\* The middleware has just handled a request of a method that needs the token.
Dispatched == pc = "idle" /\ pc' # "idle" /\ request'.method \notin AuthExempt
Json401 == [status |-> 401, body |-> "{\"error\":\"Unauthorized\"}"]
JsonProbe == [status |-> 200, body |-> "{\"status\":\"ok\",\"server\":\"GoogleAds-MCP\"}"]

\* C1: a GET, HEAD or OPTIONS request, whatever its Authorization header and
\* the configured token, is passed to the downstream handler and never
\* answered 401.
C1_ExemptMethodsAllowed ==
    request.method \in AuthExempt =>
        /\ pc \in {"call_next", "responded"}
        /\ "call_next" \in invoked
        /\ response.status # 401

C1_Witness ==
    /\ pc = "responded"
    /\ request.method = "OPTIONS"
    /\ request.auth = Absent
    /\ environ = Present(Str_T)
    /\ "call_next" \in invoked

\* C2, as stated: for every non-empty configured token T and every POST, the
\* headers `Bearer T`, `T` and either in one pair of double quotes are Allowed;
\* `Bearer X` with X different from T, and an absent header, are Denied.
C2_AsStated ==
    [][(Dispatched /\ request'.method = "POST" /\ environ.set /\ environ.value # <<>>) =>
         LET T == environ.value
             h == request'.auth
         IN /\ h \in {Present(Str_Bearer \o T), Present(T),
                      Present(Quoted(Str_Bearer \o T)), Present(Quoted(T))}
                  => pc' = "call_next"
            /\ (\/ h = Absent
                \/ /\ h.set
                   /\ StartsWith(h.value, Str_Bearer)
                   /\ SubSeq(h.value, Len(Str_Bearer) + 1, Len(h.value)) # T)
                  => pc' = "denied"]_vars

\* The tokens the amended C2 speaks of: non-empty once trimmed, not wrapped in
\* double quotes, not beginning with "Bearer" in any letter case.
C2_PlainToken(T) ==
    /\ T # <<>>
    /\ ~IsQuoteWrapped(T)
    /\ ~(Len(T) >= 6 /\ Lower(SubSeq(T, 1, 6)) = SubSeq(BearerPrefixLower, 1, 6))

\* C2, amended: with T the configured token trimmed, T plain, for every POST
\* the headers `Bearer T`, `T` and either in one pair of double quotes are
\* Allowed; `Bearer X` with X, once trimmed, different from T, and an absent
\* header, are Denied with the 401 response.
C2_HeaderForms ==
    [][(Dispatched /\ request'.method = "POST" /\ environ.set
            /\ C2_PlainToken(Trimmed(environ.value))) =>
         LET T == Trimmed(environ.value)
             h == request'.auth
         IN /\ h \in {Present(Str_Bearer \o T), Present(T),
                      Present(Quoted(Str_Bearer \o T)), Present(Quoted(T))}
                  => pc' = "call_next"
            /\ (\/ h = Absent
                \/ /\ h.set
                   /\ StartsWith(h.value, Str_Bearer)
                   /\ Trimmed(SubSeq(h.value, Len(Str_Bearer) + 1, Len(h.value))) # T)
                  => pc' = "denied" /\ response' = Json401]_vars

C2_Witness ==
    /\ pc = "call_next"
    /\ request.method = "POST"
    /\ request.auth = Present(Quoted(Str_Bearer \o Str_T))
    /\ required = Str_T

\* C3, as stated: for a method outside GET, HEAD, OPTIONS the request is
\* Allowed when the configured token is unset or empty, and otherwise exactly
\* when the token extracted from the header equals the token as configured.
C3_AsStated ==
    [][Dispatched =>
         ((pc' = "call_next") <=>
             (\/ ~environ.set
              \/ environ.value = <<>>
              \/ RefExtract(request'.auth) = environ.value))]_vars

\* C3, amended: the configured token is trimmed first. The request is Allowed
\* when the token is unset, empty or blank, and otherwise exactly when the
\* token extracted from the header equals the trimmed configured token;
\* in every other case it is Denied.
C3_ReferenceDecision ==
    [][Dispatched =>
         LET T == IF environ.set THEN Trimmed(environ.value) ELSE <<>>
         IN /\ (pc' = "call_next") <=> (T = <<>> \/ RefExtract(request'.auth) = T)
            /\ pc' \in {"call_next", "denied"}]_vars

C3_Witness ==
    /\ pc = "denied"
    /\ request.method = "DELETE"
    /\ request.auth = Present(Str_BEARER \o Str_t)
    /\ required = Str_T
    /\ token = Str_t

\* C4: a Denied request ends with the 401 response {"error":"Unauthorized"}
\* and no downstream handler is invoked for it.
C4_DeniedIs401 ==
    (/\ request # NoRequest
     /\ request.method \notin AuthExempt
     /\ required # <<>>
     /\ token # required) =>
        /\ pc = "denied"
        /\ response = Json401
        /\ invoked = {}

C4_Witness ==
    /\ pc = "denied"
    /\ request.method = "POST"
    /\ request.path = Path_mcp_slash
    /\ request.auth = Absent
    /\ response.status = 401

\* C5: a request to /mcp and a request to /mcp/ are routed to the same
\* target, through mcp_entry, and neither is answered with a 3xx redirect.
C5_BothFormsRouted ==
    (pc = "responded" /\ request.path \in {Path_mcp, Path_mcp_slash}) =>
        /\ "mcp_entry" \in invoked
        /\ ~(response.status >= 300 /\ response.status < 400)

\* C6, as stated: a request to /healthz, whatever its method, header and the
\* configured token, is answered 200 `ok` and never 401.
C6_AsStated ==
    (Answered /\ request.path = Path_healthz) =>
        /\ response = [status |-> 200, body |-> "ok"]
        /\ pc # "denied"

\* C6, amended: a GET or HEAD request to /healthz is answered 200 `ok` for
\* every header and configured token, never 401. The middleware stands in
\* front of /healthz too: the health endpoint answers no other method, which
\* gets 401 when the auth decision is Denied and 405 otherwise.
C6_HealthzGetHead ==
    (Answered /\ request.path = Path_healthz) =>
        IF request.method \in {"GET", "HEAD"}
        THEN /\ pc = "responded"
             /\ "healthz" \in invoked
             /\ response = [status |-> 200, body |-> "ok"]
        ELSE /\ "healthz" \notin invoked
             /\ response.status = (IF pc = "denied" THEN 401 ELSE 405)

C6_Witness ==
    /\ pc = "responded"
    /\ request.path = Path_healthz
    /\ request.method = "HEAD"
    /\ request.auth = Absent
    /\ environ = Present(Str_T)
    /\ response.body = "ok"

\* C7: a request that reaches mcp_entry gets the fixed probe response, without
\* the delegate, when its method is GET or HEAD, and is forwarded to the
\* delegate, without the probe response, otherwise: exactly one of the two.
C7_ProbeOrDelegate ==
    "mcp_entry" \in invoked =>
        IF request.method \in {"GET", "HEAD"}
        THEN /\ response = JsonProbe
             /\ "probe" \in invoked
             /\ "mcp_http" \notin invoked
        ELSE /\ "mcp_http" \in invoked
             /\ "probe" \notin invoked
             /\ response # JsonProbe

C7_Witness ==
    /\ "mcp_entry" \in invoked
    /\ request.method = "OPTIONS"
    /\ "mcp_http" \in invoked
    /\ pc = "responded"

\* C8, as stated: a request whose path is neither /healthz nor /mcp nor /mcp/
\* (for example /mcp/anything) is answered with a non-2xx status and reaches
\* neither the probe responder nor the delegate. Any status outside 200..299
\* is taken for the not-found answer here.
C8_AsStated ==
    (Answered /\ request.path \notin {Path_healthz, Path_mcp, Path_mcp_slash}) =>
        /\ ~(response.status >= 200 /\ response.status < 300)
        /\ "probe" \notin invoked
        /\ "mcp_http" \notin invoked

UnderMount(path) ==
    Len(path) >= 5 /\ SubSeq(path, 1, 5) = <<"/", "m", "c", "p", "/">>

\* C8, amended: a request whose path is neither /healthz nor /mcp nor under
\* /mcp/ reaches neither the probe responder nor the delegate, and is answered
\* 404 when the auth decision lets it through and 401 when it is Denied; a
\* path under /mcp/, such as /mcp/anything, is handled by mcp_entry.
C8_OtherPaths ==
    Answered =>
        /\ (request.path \notin {Path_healthz, Path_mcp} /\ ~UnderMount(request.path)) =>
              /\ response.status = (IF pc = "denied" THEN 401 ELSE 404)
              /\ "probe" \notin invoked
              /\ "mcp_http" \notin invoked
              /\ "mcp_entry" \notin invoked
        /\ (pc = "responded" /\ UnderMount(request.path)) => "mcp_entry" \in invoked

C8_Witness ==
    /\ pc = "responded"
    /\ request.path = Path_mcpx
    /\ request.method = "POST"
    /\ response.status = 404

\* C9: the token is read from the environment when a request of an
\* authenticated method is dispatched, never from an earlier read: the
\* decision is the one for the value the environment holds at that moment,
\* so a POST presenting a token is Allowed exactly when it is the token now
\* configured, whatever the token was before.
C9_TokenReadPerRequest ==
    [][Dispatched =>
         /\ required' = Trimmed(IF environ.set THEN environ.value ELSE <<>>)
         /\ \A T1 \in {Str_T, Str_t}, T2 \in {Str_T, Str_t} :
               (request'.auth = Present(T1) /\ Trimmed(OrEmpty(environ)) = T2) =>
                   ((pc' = "call_next") <=> (T1 = T2))]_vars

\* The process started with token T; the token is now t, and a POST presenting
\* T is refused.
C9_Witness ==
    /\ pc = "denied"
    /\ request.method = "POST"
    /\ request.auth = Present(Str_T)
    /\ required = Str_t
    /\ StartEnviron = Present(Str_T)

\* C10: with a non-empty required token, the delegate is invoked only for
\* requests whose header yields exactly that token; GET, HEAD and OPTIONS
\* requests, which need no token, are answered by the probe responder and
\* never delegated.
C10_DelegateOnlyWithToken ==
    "mcp_http" \in invoked =>
        /\ request.method \notin AuthExempt
        /\ required # <<>> => RefExtract(request.auth) = required

====
